---- MODULE Spec2Model ----
(***************************************************************************)
(* Gen-E backend (Joo2431/gene-backend): the request pipeline              *)
(*   guardrail -> detectIntent -> prompt -> client.responses.create        *)
(*   -> generateResumePDF -> response,                                     *)
(* the upload pipeline (multer -> extractTextFromFile -> gateway) and the  *)
(* download endpoint, as a state machine.                                  *)
(*                                                                         *)
(* The repository holds the pipeline in three revisions; the revision that *)
(* runs is fixed at start-up (variable variant):                           *)
(*   "part_001"     src/unnamed/part_001       chat + pdf + download       *)
(*   "server_early" src/server.js lines 1-366  adds upload                 *)
(*   "server_final" src/server.js lines 368-754 "Stable Version"           *)
(* src/unnamed/part_000 is the plain chat proxy that precedes the pipeline *)
(* (no guardrail, classifier or renderer) and is not modelled.             *)
(*                                                                         *)
(* Text is a sequence of characters (one-character strings); a fixed       *)
(* message of the program that is never searched may stand as one chunk.   *)
(***************************************************************************)
EXTENDS Integers, Sequences, FiniteSets, TLC

VARIABLES variant, now, reqs, files, uploads, streams, logged, probe, proc

vars == <<variant, now, reqs, files, uploads, streams, logged, probe, proc>>

(***************************************************************************)
(* Bounds of the model.                                                    *)
(***************************************************************************)
MaxReq == 2

MaxTime == 1

MaxWords == 2

Variants == {"part_001", "server_early", "server_final"}

HasUpload(v) == v \in {"server_early", "server_final"}

(***************************************************************************)
(* Strings: String.prototype.toLowerCase and String.prototype.includes.    *)
(***************************************************************************)
UpperChars ==
  <<"A","B","C","D","E","F","G","H","I","J","K","L","M",
    "N","O","P","Q","R","S","T","U","V","W","X","Y","Z">>

LowerChars ==
  <<"a","b","c","d","e","f","g","h","i","j","k","l","m",
    "n","o","p","q","r","s","t","u","v","w","x","y","z">>

LowerOf == [i \in 1..Len(UpperChars) |-> LowerChars[i]]

UpperSet == {UpperChars[i] : i \in 1..Len(UpperChars)}

IndexOfUpper == [c \in UpperSet |-> CHOOSE i \in 1..Len(UpperChars) : UpperChars[i] = c]

LowerChar(c) == IF c \in UpperSet THEN LowerOf[IndexOfUpper[c]] ELSE c

toLowerCase(s) == [i \in 1..Len(s) |-> LowerChar(s[i])]

includes(s, w) ==
  \E i \in 0..(Len(s) - Len(w)) : SubSeq(s, i + 1, i + Len(w)) = w

endsWith(s, w) ==
  /\ Len(s) >= Len(w)
  /\ SubSeq(s, Len(s) - Len(w) + 1, Len(s)) = w

(***************************************************************************)
(* The keywords of the source, as character sequences.                     *)
(***************************************************************************)
W_politics == <<"p","o","l","i","t","i","c","s">>

W_religion == <<"r","e","l","i","g","i","o","n">>

W_crypto == <<"c","r","y","p","t","o">>

W_relationship == <<"r","e","l","a","t","i","o","n","s","h","i","p">>

W_dating == <<"d","a","t","i","n","g">>

W_medical == <<"m","e","d","i","c","a","l">>

W_health == <<"h","e","a","l","t","h">>

W_health_advice == <<"h","e","a","l","t","h"," ","a","d","v","i","c","e">>

W_trading == <<"t","r","a","d","i","n","g">>

W_betting == <<"b","e","t","t","i","n","g">>

W_resume == <<"r","e","s","u","m","e">>

W_interview == <<"i","n","t","e","r","v","i","e","w">>

W_score == <<"s","c","o","r","e">>

W_readiness == <<"r","e","a","d","i","n","e","s","s">>

Refusal == "I am designed only for career and education guidance."

Null == "null"

Undefined == "undefined"

Truthy(x) == x \notin {Null, Undefined, ""}

(***************************************************************************)
(* guardrail(message): the banned list of the running revision.            *)
(***************************************************************************)
banned(v) ==
  IF v = "server_final"
  THEN <<W_politics, W_religion, W_crypto, W_relationship, W_dating,
         W_medical, W_health, W_trading, W_betting>>
  ELSE <<W_politics, W_religion, W_crypto, W_relationship, W_dating,
         W_medical, W_health_advice, W_trading, W_betting>>

guardrail(v, message) ==
  LET lower == toLowerCase(message)
  IN  IF \E k \in 1..Len(banned(v)) : includes(lower, banned(v)[k])
      THEN Refusal
      ELSE Null

(***************************************************************************)
(* detectIntent(message): first matching rule wins.                        *)
(***************************************************************************)
detectIntent_interviewFirst(message) ==
  LET msg == toLowerCase(message)
  IN  IF includes(msg, W_interview) THEN "interview"
      ELSE IF includes(msg, W_resume) THEN "resume"
      ELSE IF includes(msg, W_score) \/ includes(msg, W_readiness) THEN "score"
      ELSE "career"

detectIntent(message) ==
  LET msg == toLowerCase(message)
  IN  IF includes(msg, W_resume) THEN "resume"
      ELSE IF includes(msg, W_interview) THEN "interview"
      ELSE IF includes(msg, W_score) \/ includes(msg, W_readiness) THEN "score"
      ELSE "career"

(***************************************************************************)
(* Prompt Builder: the template blocks of app.post("/api/chat").  The      *)
(* headings are chunks; the raw message is spliced in between.             *)
(***************************************************************************)
userPrompt(v, intent, message) ==
  IF intent = "resume" THEN
    <<IF v = "part_001"
      THEN "Create an ATS-friendly resume using this input:"
      ELSE "Create an ATS-friendly resume using:">>
    \o message
    \o <<IF v = "server_final" THEN "Format:" ELSE "Format strictly:",
         "## Professional Summary", "## Core Skills", "## Experience",
         "## Projects", "## Education">>
  ELSE IF intent = "interview" THEN
    <<"Prepare interview guidance for:">>
    \o message
    \o <<"Include:", "## Quick Analysis", "## HR Questions",
         "## Technical Questions",
         IF v = "part_001" THEN "## STAR Answer Strategy" ELSE "## STAR Strategy",
         "## Practical Next Step">>
  ELSE IF intent = "score" THEN
    <<IF v = "server_final"
      THEN "Evaluate career readiness:"
      ELSE "Evaluate career readiness based on:">>
    \o message
    \o <<"Return:", "Career Readiness Score: XX%",
         "## Strengths", "## Skill Gaps", "## Action Plan">>
  ELSE IF intent = "career" THEN
    <<"Provide structured career guidance for:">>
    \o message
    \o <<"Include:", "## Quick Analysis", "## Recommended Roles",
         "## Skill Gaps", "## Action Plan", "## Practical Next Step">>
  ELSE message

(***************************************************************************)
(* The validation of req.body.message: !message || typeof message !==      *)
(* "string".  A JS value is [t |-> its typeof, v |-> its characters].      *)
(***************************************************************************)
Falsy(m) ==
  \/ m.t = "undefined"
  \/ m.t = "object" /\ m.v = <<"null">>
  \/ m.t = "string" /\ m.v = <<>>
  \/ m.t = "number" /\ m.v = <<"0">>
  \/ m.t = "boolean" /\ m.v = <<"false">>

InvalidMessage_typeOnly(m) == m.t # "string"

InvalidMessage(m) == Falsy(m) \/ m.t # "string"

(***************************************************************************)
(* Model Gateway: what client.responses.create resolves to, and how the    *)
(* handler reads the text out of it.                                       *)
(***************************************************************************)
GatewayResponses ==
  { [output_text |-> "replyA", nested |-> Undefined],
    [output_text |-> "", nested |-> "replyC"] }

GatewayErrors == {"", "401 Incorrect API key provided"}

outputOf(v, response) ==
  IF v = "server_final"
  THEN response.output_text
  ELSE IF Truthy(response.output_text)
       THEN response.output_text
       ELSE response.nested

chatErrorBody(v, err) ==
  IF v = "part_001"
  THEN (IF Truthy(err) THEN err ELSE "AI error")
  ELSE "AI processing failed"

(***************************************************************************)
(* Artifact Renderer: `resume-${Date.now()}.pdf`.                          *)
(***************************************************************************)
Digits == <<"0","1","2","3","4","5","6","7","8","9">>

RECURSIVE Decimal(_)
Decimal(n) ==
  IF n < 10 THEN <<Digits[n + 1]>>
  ELSE Decimal(n \div 10) \o <<Digits[(n % 10) + 1]>>

ArtifactName_fixed(t) == <<"resume-">> \o <<"0">> \o <<".pdf">>

ArtifactName(t) == <<"resume-">> \o Decimal(t) \o <<".pdf">>

DownloadPath(fileName) == <<"/download/">> \o fileName

(***************************************************************************)
(* Content Extractor.  An uploaded file is                                 *)
(*   [present, originalname, ok, text, entries]:                           *)
(* ok says whether the parsing library (pdf-parse, mammoth, unzipper)      *)
(* accepts the bytes, text is what the document holds, entries are the     *)
(* archive's entries [path, text] in archive order.                        *)
(***************************************************************************)
Dot == "."

extname(name) ==
  LET dots == {i \in 1..Len(name) : name[i] = Dot}
      last == CHOOSE i \in dots : \A j \in dots : j <= i
  IN  IF dots = {} \/ last = 1 THEN <<>> ELSE SubSeq(name, last, Len(name))

E_pdf == <<".","p","d","f">>

E_docx == <<".","d","o","c","x">>

E_txt == <<".","t","x","t">>

E_zip == <<".","z","i","p">>

SentinelPDF == <<"Could not extract text from PDF.">>

SentinelDOCX == <<"Could not extract text from DOCX.">>

SentinelUnsupported == <<"Unsupported file format.">>

BlankLine == <<"\n", "\n">>

Slash == <<"/">>

RECURSIVE combine_prepending(_)
combine_prepending(entries) ==
  IF entries = <<>> THEN <<>>
  ELSE LET entry == Head(entries)
       IN  combine_prepending(Tail(entries))
           \o (IF ~endsWith(entry.path, Slash) THEN entry.text \o BlankLine ELSE <<>>)

RECURSIVE combine(_)
combine(entries) ==
  IF entries = <<>> THEN <<>>
  ELSE LET entry == Head(entries)
       IN  (IF ~endsWith(entry.path, Slash) THEN entry.text \o BlankLine ELSE <<>>)
           \o combine(Tail(entries))

Returned(text) == [threw |-> FALSE, text |-> text]

Thrown == [threw |-> TRUE, text |-> <<>>]

extractTextFromFile(v, file) ==
  LET ext == toLowerCase(extname(file.originalname))
  IN  IF ext = E_pdf THEN
        (IF file.ok THEN Returned(file.text)
         ELSE IF v = "server_final" THEN Returned(SentinelPDF) ELSE Thrown)
      ELSE IF ext = E_docx THEN
        (IF file.ok THEN Returned(file.text)
         ELSE IF v = "server_final" THEN Returned(SentinelDOCX) ELSE Thrown)
      ELSE IF ext = E_txt THEN Returned(file.text)
      ELSE IF ext = E_zip THEN
        (IF file.ok THEN Returned(combine(file.entries)) ELSE Thrown)
      ELSE Returned(SentinelUnsupported)

uploadPrompt_noText(v, extractedText) ==
  IF v = "server_final"
  THEN <<"The user uploaded a career document.", "Analyze it and provide:",
         "## Document Summary", "## Strengths", "## Weaknesses",
         "## Career Readiness Score (0-100%)", "## Improvement Suggestions",
         "## Clarifying Questions", "Document content:">>
  ELSE <<"Analyze this document:">>

uploadPrompt(v, extractedText) ==
  IF v = "server_final"
  THEN <<"The user uploaded a career document.", "Analyze it and provide:",
         "## Document Summary", "## Strengths", "## Weaknesses",
         "## Career Readiness Score (0-100%)", "## Improvement Suggestions",
         "## Clarifying Questions", "Document content:">> \o extractedText
  ELSE <<"Analyze this document:">> \o extractedText

(***************************************************************************)
(* Inputs.                                                                 *)
(***************************************************************************)
RECURSIVE Phrases(_, _)
Phrases(V, n) ==
  IF n = 0 THEN {<<>>}
  ELSE LET P == Phrases(V, n - 1)
       IN  P \cup {p \o w : p \in P, w \in V}

W_job == <<"j","o","b">>

Sp == <<" ">>

ChatMessages ==
  { <<>>,
    <<"R","e","s","u","m","e">>,
    <<"R","e","s","u","m","e">> \o Sp \o W_crypto,
    W_health,
    W_interview \o Sp \o W_score,
    W_score,
    W_job }

JSString(s) == [t |-> "string", v |-> s]

JSUndefined == [t |-> "undefined", v |-> <<>>]

ChatBodies ==
  {JSString(m) : m \in ChatMessages}
  \cup { JSUndefined,
         [t |-> "object", v |-> <<"null">>],
         [t |-> "number", v |-> <<"4","2">>],
         [t |-> "object", v |-> W_resume] }

Skills == <<"s","k","i","l","l","s">>

DocTexts == { Skills, W_crypto \o Sp \o W_trading }

Archives ==
  { <<>>,
    << [path |-> <<"a",".","t","x","t">>, text |-> <<"A">>],
       [path |-> <<"d","i","r","/">>, text |-> <<>>],
       [path |-> <<"b",".","t","x","t">>, text |-> <<"B">>] >> }

NoFile ==
  [present |-> FALSE, originalname |-> <<>>, ok |-> FALSE,
   text |-> <<>>, entries |-> <<>>]

UploadedFile(name, ok, text, entries) ==
  [present |-> TRUE, originalname |-> name, ok |-> ok, text |-> text,
   entries |-> entries]

UploadFiles ==
  {NoFile}
  \cup { UploadedFile(n, k, Skills, <<>>) :
           n \in {<<"c","v">> \o E_pdf, <<"c","v",".","D","O","C","X">>},
           k \in BOOLEAN }
  \cup { UploadedFile(<<"c","v">> \o E_txt, TRUE, t, <<>>) : t \in DocTexts }
  \cup { UploadedFile(n, TRUE, Skills, <<>>) :
           n \in {<<"c","v",".","e","x","e">>, <<"c","v">>} }
  \cup { UploadedFile(<<"c","v">> \o E_zip, TRUE, <<>>, a) : a \in Archives }
  \cup { UploadedFile(<<"c","v">> \o E_zip, FALSE, <<>>, <<>>) }

ServerFile(v) == IF v = "part_001" THEN <<"part_001">> ELSE <<"server.js">>

DownloadNames ==
  {ArtifactName(t) : t \in 0..MaxTime}
  \cup {ServerFile(v) : v \in Variants}

(***************************************************************************)
(* State.                                                                  *)
(*   reqs[r]    one HTTP request and the position of its handler           *)
(*   files      the application directory (__dirname), by file name        *)
(*   uploads    the files multer has stored in uploads/ (one per request)  *)
(*   streams[r] the write stream generateResumePDF opened for request r    *)
(*   logged     what console.error has printed                             *)
(*   now        Date.now()                                                 *)
(*   probe      a direct call of guardrail / detectIntent (SpecPure)       *)
(***************************************************************************)
Requests == 1..MaxReq

NoBody == [reply |-> Undefined, pdf |-> <<>>, error |-> Undefined]

NoEntry == [exists |-> FALSE, origin |-> "none", state |-> "none", text |-> Undefined]

NoStream == [state |-> "none", name |-> <<>>, content |-> Undefined]

NoRequest ==
  [kind |-> "none", pc |-> "idle", message |-> JSUndefined, file |-> NoFile,
   param |-> <<>>, blocked |-> Null, intent |-> "none", gwInput |-> <<>>,
   extracted |-> Thrown, guardCalls |-> 0, intentCalls |-> 0, gw |-> 0,
   gwOutcome |-> "none", renders |-> 0, stamp |-> -1, responses |-> 0,
   status |-> 0, body |-> NoBody, served |-> NoEntry, announced |-> FALSE]

NoProbe ==
  [message |-> <<>>, blocked |-> "none", intent |-> "none",
   file |-> NoFile, extractCalled |-> FALSE, extracted |-> Thrown]

InitCommon ==
  /\ variant \in Variants
  /\ now = 0
  /\ reqs = [r \in Requests |-> NoRequest]
  /\ files = [n \in DownloadNames |->
                IF n = ServerFile(variant)
                THEN [exists |-> TRUE, origin |-> "app", state |-> "complete",
                      text |-> "source"]
                ELSE NoEntry]
  /\ uploads = {}
  /\ streams = [r \in Requests |-> NoStream]
  /\ logged = {}

(***************************************************************************)
(* Start-up: the module body from dotenv.config() to app.listen.  proc is  *)
(* the process: its phase and process.env.OPENAI_API_KEY as it stands      *)
(* after dotenv.config().                                                  *)
(***************************************************************************)
EnvKeys == {Undefined, "", "sk-key"}

Listening == [phase |-> "listening", key |-> "sk-key"]

Init ==
  /\ InitCommon
  /\ probe = NoProbe
  /\ proc \in {[phase |-> "boot", key |-> k] : k \in EnvKeys}

CredentialMissing_never(key) == FALSE

CredentialMissing(key) == ~Truthy(key)

Start ==
  /\ proc.phase = "boot"
  /\ IF CredentialMissing(proc.key)
     THEN /\ logged' = logged \cup {[r |-> 0, detail |-> "OPENAI_API_KEY missing"]}
          /\ proc' = [proc EXCEPT !.phase = "exited"]
     ELSE /\ logged' = logged
          /\ proc' = [proc EXCEPT !.phase = "listening"]
  /\ UNCHANGED <<variant, now, reqs, files, uploads, streams, probe>>

Arrives(r) ==
  /\ proc.phase = "listening"
  /\ reqs[r].kind = "none"
  /\ \A q \in Requests : q < r => reqs[q].kind # "none"

Respond_twice(rec, status, body) ==
  [rec EXCEPT !.pc = "done", !.status = status, !.body = body,
              !.responses = @ + 2]

Respond(rec, status, body) ==
  [rec EXCEPT !.pc = "done", !.status = status, !.body = body,
              !.responses = @ + 1]

(***************************************************************************)
(* app.post("/api/chat"): from the receipt of the request to the first     *)
(* await (the gateway call) or to an early return.                         *)
(***************************************************************************)
ChatReceive(r, m) ==
  /\ Arrives(r)
  /\ LET rec0 == [NoRequest EXCEPT !.kind = "chat", !.message = m]
         blocked == guardrail(variant, m.v)
         rec1 == [rec0 EXCEPT !.guardCalls = @ + 1, !.blocked = blocked]
         intent == detectIntent(m.v)
     IN  reqs' = [reqs EXCEPT ![r] =
           IF InvalidMessage(m)
           THEN Respond(rec0, 400, [NoBody EXCEPT !.error = "Invalid message"])
           ELSE IF Truthy(blocked)
           THEN Respond(rec1, 200, [NoBody EXCEPT !.reply = blocked])
           ELSE [rec1 EXCEPT !.intentCalls = @ + 1, !.intent = intent,
                             !.gwInput = userPrompt(variant, intent, m.v),
                             !.gw = @ + 1, !.pc = "gateway"]]
  /\ UNCHANGED <<variant, now, files, uploads, streams, logged, probe, proc>>

(***************************************************************************)
(* The gateway call resolves: the rest of the try block.  For the resume   *)
(* intent generateResumePDF creates the write stream (the file itself is   *)
(* opened and written later, by the stream) and returns the name.          *)
(***************************************************************************)
ShouldRender_always(intent) == TRUE

ShouldRender(intent) == intent = "resume"

ChatGatewayOk(r, response) ==
  /\ reqs[r].kind = "chat"
  /\ reqs[r].pc = "gateway"
  /\ LET output == outputOf(variant, response)
         fileName == ArtifactName(now)
         rec == [reqs[r] EXCEPT !.gwOutcome = "ok"]
     IN  IF ShouldRender(rec.intent)
         THEN /\ streams' = [streams EXCEPT ![r] =
                   [state |-> "pending", name |-> fileName, content |-> output]]
              /\ reqs' = [reqs EXCEPT ![r] =
                   Respond([rec EXCEPT !.renders = @ + 1, !.stamp = now], 200,
                           [NoBody EXCEPT !.reply = output,
                                          !.pdf = DownloadPath(fileName)])]
         ELSE /\ streams' = streams
              /\ reqs' = [reqs EXCEPT ![r] =
                   Respond(rec, 200, [NoBody EXCEPT !.reply = output])]
  /\ UNCHANGED <<variant, now, files, uploads, logged, probe, proc>>

(***************************************************************************)
(* The gateway call rejects: the catch block.                              *)
(***************************************************************************)
ChatGatewayFail(r, err) ==
  /\ reqs[r].kind = "chat"
  /\ reqs[r].pc = "gateway"
  /\ logged' = logged \cup {[r |-> r, detail |-> err]}
  /\ reqs' = [reqs EXCEPT ![r] =
       Respond([reqs[r] EXCEPT !.gwOutcome = "failed"], 500,
               [NoBody EXCEPT !.error = chatErrorBody(variant, err)])]
  /\ UNCHANGED <<variant, now, files, uploads, streams, probe, proc>>

(***************************************************************************)
(* The write stream of an artifact: fs.createWriteStream opens the file    *)
(* (flag "w": create or truncate) after generateResumePDF has returned,    *)
(* and doc.end() flushes the document after that.  Two streams open on one *)
(* file both write from offset 0; what the file then holds depends on the  *)
(* lengths of the two documents.                                           *)
(***************************************************************************)
StreamOpen(r) ==
  /\ streams[r].state = "pending"
  /\ streams' = [streams EXCEPT ![r].state = "open"]
  /\ files' = [files EXCEPT ![streams[r].name] =
       [exists |-> TRUE, origin |-> "renderer", state |-> "empty", text |-> ""]]
  /\ UNCHANGED <<variant, now, reqs, uploads, logged, probe, proc>>

StreamFinish(r, clean) ==
  /\ streams[r].state = "open"
  /\ clean \/ files[streams[r].name].state # "empty"
  /\ streams' = [streams EXCEPT ![r].state = "closed"]
  /\ files' = [files EXCEPT ![streams[r].name] =
       [exists |-> TRUE, origin |-> "renderer",
        state |-> IF clean THEN "complete" ELSE "garbled",
        text |-> streams[r].content]]
  /\ UNCHANGED <<variant, now, reqs, uploads, logged, probe, proc>>

(***************************************************************************)
(* app.post("/api/upload"): multer stores the file, then the handler runs  *)
(* to `await extractTextFromFile`.                                         *)
(***************************************************************************)
UploadReceive(r, f) ==
  /\ HasUpload(variant)
  /\ Arrives(r)
  /\ uploads' = IF f.present THEN uploads \cup {r} ELSE uploads
  /\ LET rec0 == [NoRequest EXCEPT !.kind = "upload", !.file = f]
     IN  reqs' = [reqs EXCEPT ![r] =
           IF ~f.present
           THEN Respond(rec0, 400, [NoBody EXCEPT !.error = "No file uploaded"])
           ELSE [rec0 EXCEPT !.pc = "extract"]]
  /\ UNCHANGED <<variant, now, files, streams, logged, probe, proc>>

UploadExtract(r) ==
  /\ reqs[r].kind = "upload"
  /\ reqs[r].pc = "extract"
  /\ LET res == extractTextFromFile(variant, reqs[r].file)
     IN  IF res.threw
         THEN /\ logged' = logged \cup {[r |-> r, detail |-> "extraction error"]}
              /\ reqs' = [reqs EXCEPT ![r] =
                   Respond(reqs[r], 500,
                           [NoBody EXCEPT !.error = "File processing failed"])]
         ELSE /\ logged' = logged
              /\ reqs' = [reqs EXCEPT ![r] =
                   [reqs[r] EXCEPT !.extracted = res,
                                   !.gwInput = uploadPrompt(variant, res.text),
                                   !.gw = @ + 1, !.pc = "gateway"]]
  /\ UNCHANGED <<variant, now, files, uploads, streams, probe, proc>>

UploadGatewayOk(r, response) ==
  /\ reqs[r].kind = "upload"
  /\ reqs[r].pc = "gateway"
  /\ uploads' = IF variant = "server_final" THEN uploads \ {r} ELSE uploads
  /\ reqs' = [reqs EXCEPT ![r] =
       Respond([reqs[r] EXCEPT !.gwOutcome = "ok"], 200,
               [NoBody EXCEPT !.reply = outputOf(variant, response)])]
  /\ UNCHANGED <<variant, now, files, streams, logged, probe, proc>>

UploadGatewayFail(r, err) ==
  /\ reqs[r].kind = "upload"
  /\ reqs[r].pc = "gateway"
  /\ logged' = logged \cup {[r |-> r, detail |-> err]}
  /\ reqs' = [reqs EXCEPT ![r] =
       Respond([reqs[r] EXCEPT !.gwOutcome = "failed"], 500,
               [NoBody EXCEPT !.error = "File processing failed"])]
  /\ UNCHANGED <<variant, now, files, uploads, streams, probe, proc>>

(***************************************************************************)
(* app.get("/download/:file"): path.join(__dirname, req.params.file),      *)
(* fs.existsSync, res.download.  announced records whether a chat response *)
(* carrying this path had been sent when the request arrived.              *)
(***************************************************************************)
Download(r, name) ==
  /\ Arrives(r)
  /\ LET entry == files[name]
         rec0 == [NoRequest EXCEPT
                    !.kind = "download", !.param = name,
                    !.announced = \E q \in Requests :
                       /\ reqs[q].kind = "chat"
                       /\ reqs[q].pc = "done"
                       /\ reqs[q].body.pdf = DownloadPath(name)]
     IN  reqs' = [reqs EXCEPT ![r] =
           IF ~entry.exists
           THEN Respond(rec0, 404, [NoBody EXCEPT !.error = "File not found"])
           ELSE Respond([rec0 EXCEPT !.served = entry], 200, NoBody)]
  /\ UNCHANGED <<variant, now, files, uploads, streams, logged, probe, proc>>

(***************************************************************************)
(* The clock behind Date.now().                                            *)
(***************************************************************************)
Tick ==
  /\ proc.phase = "listening"
  /\ now < MaxTime
  /\ now' = now + 1
  /\ UNCHANGED <<variant, reqs, files, uploads, streams, logged, probe, proc>>

Next ==
  \/ Start
  \/ \E r \in Requests, m \in ChatBodies : ChatReceive(r, m)
  \/ \E r \in Requests, response \in GatewayResponses : ChatGatewayOk(r, response)
  \/ \E r \in Requests, err \in GatewayErrors : ChatGatewayFail(r, err)
  \/ \E r \in Requests : StreamOpen(r)
  \/ \E r \in Requests, clean \in BOOLEAN : StreamFinish(r, clean)
  \/ \E r \in Requests, f \in UploadFiles : UploadReceive(r, f)
  \/ \E r \in Requests : UploadExtract(r)
  \/ \E r \in Requests, response \in GatewayResponses : UploadGatewayOk(r, response)
  \/ \E r \in Requests, err \in GatewayErrors : UploadGatewayFail(r, err)
  \/ \E r \in Requests, name \in DownloadNames : Download(r, name)
  \/ Tick

Spec == Init /\ [][Next]_vars

(***************************************************************************)
(* The chat, render and download endpoints alone (all that the revision    *)
(* part_001 has): the traffic without uploads.                             *)
(***************************************************************************)
NextChat ==
  \/ Start
  \/ \E r \in Requests, m \in ChatBodies : ChatReceive(r, m)
  \/ \E r \in Requests, response \in GatewayResponses : ChatGatewayOk(r, response)
  \/ \E r \in Requests, err \in GatewayErrors : ChatGatewayFail(r, err)
  \/ \E r \in Requests : StreamOpen(r)
  \/ \E r \in Requests, clean \in BOOLEAN : StreamFinish(r, clean)
  \/ \E r \in Requests, name \in DownloadNames : Download(r, name)
  \/ Tick

SpecChat == Init /\ [][NextChat]_vars

(***************************************************************************)
(* The upload endpoint alone: the traffic without chat and downloads.      *)
(***************************************************************************)
NextUpload ==
  \/ Start
  \/ \E r \in Requests, f \in UploadFiles : UploadReceive(r, f)
  \/ \E r \in Requests : UploadExtract(r)
  \/ \E r \in Requests, response \in GatewayResponses : UploadGatewayOk(r, response)
  \/ \E r \in Requests, err \in GatewayErrors : UploadGatewayFail(r, err)

SpecUpload == Init /\ [][NextUpload]_vars

(***************************************************************************)
(* The two POST endpoints together: every request that can reach the       *)
(* gateway, without downloads, stream events and clock ticks.              *)
(***************************************************************************)
NextPost ==
  \/ Start
  \/ \E r \in Requests, m \in ChatBodies : ChatReceive(r, m)
  \/ \E r \in Requests, response \in GatewayResponses : ChatGatewayOk(r, response)
  \/ \E r \in Requests, err \in GatewayErrors : ChatGatewayFail(r, err)
  \/ \E r \in Requests, f \in UploadFiles : UploadReceive(r, f)
  \/ \E r \in Requests : UploadExtract(r)
  \/ \E r \in Requests, response \in GatewayResponses : UploadGatewayOk(r, response)
  \/ \E r \in Requests, err \in GatewayErrors : UploadGatewayFail(r, err)

SpecPost == Init /\ [][NextPost]_vars

(***************************************************************************)
(* Direct calls of the two pure functions on a bounded set of messages.    *)
(***************************************************************************)
Vocab ==
  { W_resume, <<"R","E","S","U","M","E">>, <<"r","e","s","u","m">>,
    W_interview, <<"I","n","t","e","r","v","i","e","w">>, W_score,
    <<"R","e","a","d","i","n","e","s","s">>, W_crypto, W_health,
    <<" ","a","d","v","i","c","e">>, W_job, <<" ">> }

Messages == Phrases(Vocab, MaxWords)

InitPure ==
  /\ InitCommon
  /\ proc = Listening
  /\ probe \in {[NoProbe EXCEPT !.message = m] : m \in Messages}

ProbeGuardrail ==
  /\ probe.blocked = "none"
  /\ probe' = [probe EXCEPT !.blocked = guardrail(variant, probe.message)]
  /\ UNCHANGED <<variant, now, reqs, files, uploads, streams, logged, proc>>

ProbeDetectIntent ==
  /\ probe.intent = "none"
  /\ probe' = [probe EXCEPT !.intent = detectIntent(probe.message)]
  /\ UNCHANGED <<variant, now, reqs, files, uploads, streams, logged, proc>>

NextPure == ProbeGuardrail \/ ProbeDetectIntent

SpecPure == InitPure /\ [][NextPure]_vars

(***************************************************************************)
(* Direct calls of extractTextFromFile on .zip uploads: every archive of   *)
(* up to MaxEntries entries.                                               *)
(***************************************************************************)
MaxEntries == 3

ZipEntries ==
  { [path |-> <<"a",".","t","x","t">>, text |-> <<"A">>],
    [path |-> <<"n","/","b",".","t","x","t">>, text |-> <<"B","\n","b">>],
    [path |-> <<"n","/">>, text |-> <<>>] }

ProbeArchives == Phrases({<<e>> : e \in ZipEntries}, MaxEntries)

ProbeZips ==
  { UploadedFile(n, TRUE, <<>>, a) :
      n \in {<<"c","v">> \o E_zip, <<"c","v",".","Z","I","P">>},
      a \in ProbeArchives }

InitZip ==
  /\ InitCommon
  /\ proc = Listening
  /\ HasUpload(variant)
  /\ probe \in {[NoProbe EXCEPT !.file = f] : f \in ProbeZips}

ProbeExtract ==
  /\ ~probe.extractCalled
  /\ probe' = [probe EXCEPT !.extractCalled = TRUE,
                            !.extracted = extractTextFromFile(variant, probe.file)]
  /\ UNCHANGED <<variant, now, reqs, files, uploads, streams, logged, proc>>

NextZip == ProbeExtract

SpecZip == InitZip /\ [][NextZip]_vars

(***************************************************************************)
(*                              The claims                                 *)
(***************************************************************************)
ChatReqs == {r \in Requests : reqs[r].kind = "chat"}

UploadReqs == {r \in Requests : reqs[r].kind = "upload"}

DownloadReqs == {r \in Requests : reqs[r].kind = "download"}

ClaimBanned ==
  { W_politics, W_religion, W_crypto, W_relationship, W_dating,
    W_medical, W_health, W_trading, W_betting }

HasBannedTerm(text) == \E w \in ClaimBanned : includes(toLowerCase(text), w)

(* C1: every chat message that contains, lower-cased, one of the nine      *)
(* banned terms (health among them) is answered 200 with the fixed refusal *)
(* and reaches neither the gateway nor the renderer.                       *)
C1_BannedAlwaysRefused ==
  \A r \in ChatReqs :
    (reqs[r].message.t = "string" /\ HasBannedTerm(reqs[r].message.v)) =>
      /\ reqs[r].status = 200
      /\ reqs[r].body.reply = Refusal
      /\ reqs[r].gw = 0
      /\ reqs[r].renders = 0
      /\ streams[r].state = "none"

(* C2: a chat request whose message is missing, empty or not a string is   *)
(* answered 400 with an error body, and the guardrail, the classifier, the *)
(* gateway and the renderer are never invoked for it; no file is created.  *)
MissingEmptyOrNotString(m) ==
  \/ m.t = "undefined"
  \/ m.t = "string" /\ Len(m.v) = 0
  \/ m.t # "string"

C2_InvalidMessageRejected ==
  \A r \in ChatReqs :
    MissingEmptyOrNotString(reqs[r].message) =>
      /\ reqs[r].pc = "done"
      /\ reqs[r].status = 400
      /\ reqs[r].body.error # Undefined
      /\ reqs[r].body.reply = Undefined
      /\ reqs[r].guardCalls = 0
      /\ reqs[r].intentCalls = 0
      /\ reqs[r].gw = 0
      /\ reqs[r].renders = 0
      /\ streams[r].state = "none"
      /\ r \notin uploads

C2_Witness ==
  /\ \E r \in ChatReqs : reqs[r].message = JSString(<<>>) /\ reqs[r].status = 400
  /\ \E r \in ChatReqs : reqs[r].message.t = "number" /\ reqs[r].status = 400

(* C3: detectIntent returns exactly one of the four categories, by the     *)
(* priority resume > interview > score (score or readiness) > career on    *)
(* the lower-cased message.                                                *)
C3_IntentPriority ==
  probe.intent # "none" =>
    LET l == toLowerCase(probe.message)
    IN  /\ probe.intent \in {"resume", "interview", "score", "career"}
        /\ includes(l, W_resume) => probe.intent = "resume"
        /\ (~includes(l, W_resume) /\ includes(l, W_interview))
             => probe.intent = "interview"
        /\ (~includes(l, W_resume) /\ ~includes(l, W_interview)
              /\ (includes(l, W_score) \/ includes(l, W_readiness)))
             => probe.intent = "score"
        /\ (~includes(l, W_resume) /\ ~includes(l, W_interview)
              /\ ~includes(l, W_score) /\ ~includes(l, W_readiness))
             => probe.intent = "career"
        /\ probe.message = <<"R","E","S","U","M","E">> \o W_interview
             => probe.intent = "resume"
        /\ probe.message = <<"R","e","a","d","i","n","e","s","s">>
             => probe.intent = "score"

C3_Witness ==
  /\ probe.intent = "resume"
  /\ includes(toLowerCase(probe.message), W_interview)
  /\ includes(probe.message, <<"R","E","S","U","M","E">>)

(* C4: when the gateway call of a chat request fails, the answer is 500    *)
(* with the generic error "AI processing failed"; the error detail is      *)
(* logged and is not in the response body.                                 *)
C4_GatewayFailureGeneric ==
  \A r \in ChatReqs :
    reqs[r].gwOutcome = "failed" =>
      /\ reqs[r].status = 500
      /\ reqs[r].body.error = "AI processing failed"
      /\ \E l \in logged : l.r = r
      /\ \A l \in logged : l.r = r => reqs[r].body.error # l.detail

(* C5: once an upload request that carried a file has been answered, its   *)
(* file is no longer in uploads/, whatever the outcome (stated of the      *)
(* final revision, the one that has a clean-up step at all).               *)
C5_UploadDeleted ==
  variant = "server_final" =>
    \A r \in UploadReqs :
      (reqs[r].file.present /\ reqs[r].pc = "done") => r \notin uploads

(* C6: extractTextFromFile never throws: every upload that carried a file  *)
(* reaches the gateway with a text, and a 500 answer of the upload         *)
(* endpoint comes from a gateway failure only (stated of the final         *)
(* revision, whose extractor is the one with the sentinels).               *)
C6_ExtractionNeverFails ==
  variant = "server_final" =>
    \A r \in UploadReqs :
      /\ (reqs[r].file.present /\ reqs[r].pc \in {"gateway", "done"})
           => (reqs[r].gw = 1 /\ ~reqs[r].extracted.threw)
      /\ reqs[r].status = 500 => reqs[r].gwOutcome = "failed"

(* C7: a chat response carries a pdf path exactly when the handler's       *)
(* category is resume and the gateway call succeeded; the renderer runs    *)
(* once in that case and never otherwise, and no artifact exists without   *)
(* such a render.                                                          *)
C7_PdfIffResume ==
  /\ \A r \in Requests :
       LET rendered == /\ reqs[r].kind = "chat"
                       /\ reqs[r].intent = "resume"
                       /\ reqs[r].gwOutcome = "ok"
       IN  /\ reqs[r].renders = (IF rendered THEN 1 ELSE 0)
           /\ (reqs[r].body.pdf # <<>>) <=> rendered
           /\ (streams[r].state # "none") <=> rendered
           /\ rendered =>
                /\ reqs[r].status = 200
                /\ reqs[r].intent = detectIntent(reqs[r].message.v)
                /\ reqs[r].body.pdf = DownloadPath(streams[r].name)
  /\ \A n \in DownloadNames :
       files[n].origin = "renderer" =>
         \E r \in ChatReqs : reqs[r].renders = 1 /\ streams[r].name = n

C7_Witness ==
  /\ \E r \in ChatReqs :
       /\ reqs[r].status = 200
       /\ reqs[r].body.pdf # <<>>
       /\ reqs[r].renders = 1
  /\ \E r \in ChatReqs :
       /\ reqs[r].status = 200
       /\ reqs[r].intent = "interview"
       /\ reqs[r].body.pdf = <<>>

(* C8: a download of a path that a chat response has already announced     *)
(* finds the file and serves the completely written document.              *)
C8_DownloadResolvable ==
  \A d \in DownloadReqs :
    reqs[d].announced =>
      (reqs[d].status = 200 /\ reqs[d].served.state = "complete")

(* C9: two renders at the same millisecond get the same name, the same     *)
(* file and the same download path, so at most one of two different        *)
(* replies is retrievable; renders at different milliseconds get different *)
(* names.                                                                  *)
Retrievable(r) ==
  /\ files[streams[r].name].state = "complete"
  /\ files[streams[r].name].text = streams[r].content

C9_NameByTimestamp ==
  \A r1 \in ChatReqs, r2 \in ChatReqs :
    (r1 # r2 /\ reqs[r1].renders = 1 /\ reqs[r2].renders = 1) =>
      /\ reqs[r1].stamp = reqs[r2].stamp =>
           /\ streams[r1].name = streams[r2].name
           /\ reqs[r1].body.pdf = reqs[r2].body.pdf
           /\ streams[r1].content # streams[r2].content
                => ~(Retrievable(r1) /\ Retrievable(r2))
      /\ reqs[r1].stamp # reqs[r2].stamp =>
           /\ streams[r1].name # streams[r2].name
           /\ reqs[r1].body.pdf # reqs[r2].body.pdf

C9_Witness ==
  \E r1 \in ChatReqs, r2 \in ChatReqs :
    /\ r1 # r2
    /\ reqs[r1].renders = 1 /\ reqs[r2].renders = 1
    /\ reqs[r1].stamp = reqs[r2].stamp
    /\ streams[r1].content # streams[r2].content
    /\ streams[r1].state = "closed" /\ streams[r2].state = "closed"
    /\ Retrievable(r2)

(* C10: the download endpoint serves a file only under the generated name  *)
(* of a rendered artifact and answers 404 for every other name.            *)
C10_OnlyArtifactsServed ==
  \A d \in DownloadReqs :
    /\ reqs[d].status \in {200, 404}
    /\ reqs[d].status = 200 =>
         /\ reqs[d].served.origin = "renderer"
         /\ \E r \in ChatReqs :
              reqs[r].renders = 1 /\ streams[r].name = reqs[d].param

(* C11: while the API credential is absent from process.env the process   *)
(* never listens and no request is ever accepted or handled; start-up      *)
(* ends in exit.                                                           *)
C11_NoServiceWithoutCredential ==
  proc.key \in {Undefined, ""} =>
    /\ proc.phase \in {"boot", "exited"}
    /\ \A r \in Requests : reqs[r].kind = "none" /\ reqs[r].responses = 0
    /\ uploads = {}

C11_Witness ==
  /\ proc.key = Undefined
  /\ proc.phase = "exited"
  /\ \E l \in logged : l.detail = "OPENAI_API_KEY missing"

(* C12 as stated: for a .zip upload the result is the texts of the         *)
(* non-directory entries in archive order with a blank line between        *)
(* consecutive ones (A, blank line, B).                                    *)
IsFileEntry(e) == e.path = <<>> \/ e.path[Len(e.path)] # "/"

RECURSIVE JoinedBetween(_)
JoinedBetween(kept) ==
  IF kept = <<>> THEN <<>>
  ELSE IF Len(kept) = 1 THEN kept[1].text
  ELSE kept[1].text \o <<"\n", "\n">> \o JoinedBetween(Tail(kept))

RECURSIVE EachTerminated(_)
EachTerminated(kept) ==
  IF kept = <<>> THEN <<>>
  ELSE EachTerminated(SubSeq(kept, 1, Len(kept) - 1))
       \o kept[Len(kept)].text \o <<"\n", "\n">>

C13_OneGatewayCallOneResponse ==
  \A r \in ChatReqs \cup UploadReqs :
    /\ reqs[r].gw \in {0, 1}
    /\ reqs[r].responses \in {0, 1}
    /\ reqs[r].pc \in {"extract", "gateway", "done"}
    /\ reqs[r].pc = "done" <=> reqs[r].responses = 1
    /\ reqs[r].pc # "done" =>
         /\ reqs[r].status = 0
         /\ reqs[r].body = NoBody
         /\ reqs[r].gwOutcome = "none"
    /\ reqs[r].pc = "done" =>
         /\ reqs[r].status \in {200, 400, 500}
         /\ reqs[r].status = 200 =>
              (reqs[r].body.error = Undefined /\ reqs[r].body.reply # Undefined)
         /\ reqs[r].status # 200 =>
              /\ reqs[r].body.error # Undefined
              /\ reqs[r].body.reply = Undefined
              /\ reqs[r].body.pdf = <<>>
    /\ reqs[r].gwOutcome # "none" => (reqs[r].gw = 1 /\ reqs[r].pc = "done")

C13_Witness ==
  /\ \E r \in ChatReqs :
       reqs[r].gwOutcome = "failed" /\ reqs[r].status = 500 /\ reqs[r].gw = 1
  /\ \E r \in UploadReqs :
       reqs[r].gwOutcome = "ok" /\ reqs[r].status = 200 /\ reqs[r].responses = 1

(* C14: the upload path has no guardrail: whatever text the extractor      *)
(* returned (a banned term, a failure sentinel) is forwarded inside the    *)
(* analysis prompt in one gateway call, and the backend never answers an   *)
(* upload with the fixed refusal.                                          *)
C14_UploadNotGuarded ==
  \A r \in UploadReqs :
    reqs[r].file.present =>
      /\ reqs[r].guardCalls = 0
      /\ reqs[r].blocked = Null
      /\ reqs[r].body.reply # Refusal
      /\ (reqs[r].pc \in {"gateway", "done"} /\ ~reqs[r].extracted.threw) =>
           /\ reqs[r].gw = 1
           /\ endsWith(reqs[r].gwInput, reqs[r].extracted.text)
           /\ Len(reqs[r].gwInput) > Len(reqs[r].extracted.text)
           /\ reqs[r].gwOutcome = "ok" => reqs[r].status = 200

C14_Witness ==
  /\ \E r \in UploadReqs :
       /\ HasBannedTerm(reqs[r].extracted.text)
       /\ reqs[r].gw = 1
       /\ reqs[r].status = 200
  /\ \E r \in UploadReqs :
       /\ reqs[r].extracted.text \in {SentinelPDF, SentinelDOCX, SentinelUnsupported}
       /\ reqs[r].gw = 1

====
